---- MODULE Spec2Model ----
(***************************************************************************)
(* Model of pdfp's text-to-speech operation (pdfp/operations/tts.py):      *)
(* SharedState, QueueHandler.emit and Converter.convert, together with the *)
(* 'gtts.tts' logger's handler list, which outlives a convert call.        *)
(***************************************************************************)
EXTENDS Integers, Sequences, FiniteSets, TLC

(***************************************************************************)
(* Bounds of the model.                                                    *)
(***************************************************************************)
\* convert calls made one after another on the Converter
MaxRuns == 2
\* chunk files the chunker may return
MaxChunks == 2
\* records logged on 'gtts.tts' over the whole behaviour
MaxLog == 3
\* largest count a "text_parts: N" record announces
MaxTotal == 3

(***************************************************************************)
(* Python float arithmetic (IEEE-754 binary64, round to nearest, ties to   *)
(* even) for the one expression of emit that needs it:                     *)
(*     (progress / total_parts) * 100                                      *)
(* A positive float is [hi, lo, exp] and stands for                        *)
(* (hi * 2^26 + lo) * 2^exp, with the 53-bit significand hi*2^26+lo        *)
(* normalised (its top bit set).  Significands are handled as bit          *)
(* sequences, most significant bit first, because they exceed the 32-bit  *)
(* integers of TLC.                                                        *)
(***************************************************************************)
MantBits == 53
LoBits == 26

Zero == [hi |-> 0, lo |-> 0, exp |-> 0]

RECURSIVE BitsToInt(_)
BitsToInt(bs) ==
  IF bs = <<>> THEN 0 ELSE 2 * BitsToInt(SubSeq(bs, 1, Len(bs) - 1)) + bs[Len(bs)]

RECURSIVE IntToBits(_)
IntToBits(n) ==
  IF n = 0 THEN <<>> ELSE Append(IntToBits(n \div 2), n % 2)

\* the float with significand bits bs (MantBits of them) and exponent e
Pack(bs, e) ==
  [hi |-> BitsToInt(SubSeq(bs, 1, MantBits - LoBits)),
   lo |-> BitsToInt(SubSeq(bs, MantBits - LoBits + 1, MantBits)),
   exp |-> e]

RECURSIVE PadBits(_, _)
PadBits(bs, n) == IF Len(bs) >= n THEN bs ELSE PadBits(<<0>> \o bs, n)

Unpack(x) ==
  PadBits(IntToBits(x.hi), MantBits - LoBits) \o PadBits(IntToBits(x.lo), LoBits)

\* bs + 1, one bit longer when the carry runs out of the top
RECURSIVE IncBits(_)
IncBits(bs) ==
  IF bs = <<>> THEN <<1>>
  ELSE IF bs[Len(bs)] = 0 THEN SubSeq(bs, 1, Len(bs) - 1) \o <<1>>
  ELSE IncBits(SubSeq(bs, 1, Len(bs) - 1)) \o <<0>>

\* Round a significand to MantBits: kept are the first MantBits bits, up says
\* whether the discarded part is more than half a unit in the last place, tie
\* whether it is exactly half.  e is the exponent of the last kept bit.
RoundBits(kept, up, tie, e) ==
  LET inc == up \/ (tie /\ kept[MantBits] = 1)
      r == IF inc THEN IncBits(kept) ELSE kept
  IN IF Len(r) > MantBits THEN Pack(SubSeq(r, 1, MantBits), e + 1) ELSE Pack(r, e)

\* the bits of r/b after the binary point, n of them, for 0 <= r < b
RECURSIVE DivBits(_, _, _)
DivBits(r, b, n) ==
  IF n = 0 THEN <<>>
  ELSE IF 2 * r >= b THEN <<1>> \o DivBits(2 * r - b, b, n - 1)
  ELSE <<0>> \o DivBits(2 * r, b, n - 1)

\* the remainder left by DivBits(r, b, n)
RECURSIVE DivRem(_, _, _)
DivRem(r, b, n) ==
  IF n = 0 THEN r
  ELSE IF 2 * r >= b THEN DivRem(2 * r - b, b, n - 1)
  ELSE DivRem(2 * r, b, n - 1)

\* the exponent E with 2^E <= a/b < 2^(E+1), for a, b >= 1
RECURSIVE NormExp(_, _)
NormExp(a, b) ==
  IF a < b THEN NormExp(2 * a, b) - 1
  ELSE IF a >= 2 * b THEN NormExp(a, 2 * b) + 1
  ELSE 0

RECURSIVE Pow2(_)
Pow2(n) == IF n = 0 THEN 1 ELSE 2 * Pow2(n - 1)

\* int / int (true division): the float nearest to a/b, for a >= 0, b >= 1
FloatDiv(a, b) ==
  IF a = 0 THEN Zero
  ELSE LET E == NormExp(a, b)
           an == IF E < 0 THEN a * Pow2(-E) ELSE a
           bn == IF E > 0 THEN b * Pow2(E) ELSE b
           kept == <<1>> \o DivBits(an - bn, bn, MantBits - 1)
           rem == DivRem(an - bn, bn, MantBits - 1)
       IN RoundBits(kept, 2 * rem > bn, 2 * rem = bn, E - (MantBits - 1))

\* bits of bs * k + carry, for a small k, working up from the last bit
RECURSIVE MulBits(_, _, _)
MulBits(bs, k, carry) ==
  IF bs = <<>> THEN IntToBits(carry)
  ELSE LET v == bs[Len(bs)] * k + carry
           front == SubSeq(bs, 1, Len(bs) - 1)
       IN IF v % 2 = 1 THEN Append(MulBits(front, k, v \div 2), 1)
          ELSE Append(MulBits(front, k, v \div 2), 0)

\* float * int: the float nearest to x * k, for a small k >= 1
FloatMul(x, k) ==
  IF x = Zero THEN Zero
  ELSE LET p == MulBits(Unpack(x), k, 0)
           extra == Len(p) - MantBits
           kept == SubSeq(p, 1, MantBits)
           rest == SubSeq(p, MantBits + 1, Len(p))
           half == extra > 0 /\ rest[1] = 1
           sticky == \E i \in 2..extra : rest[i] = 1
       IN RoundBits(kept, half /\ sticky, half /\ ~sticky, x.exp + extra)

(***************************************************************************)
(* Strings.  A string is a sequence of pieces; a piece is a character of a *)
(* file name or a literal run of an f-string, so that concatenation,       *)
(* lower(), endswith() and "contains" are computed, not assumed.           *)
(***************************************************************************)
UpperCase == <<"A", "B", "C", "D", "F", "P", "T", "X">>
LowerCase == <<"a", "b", "c", "d", "f", "p", "t", "x">>

\* str.lower() on one character
LowerChar(c) ==
  IF \E i \in DOMAIN UpperCase : UpperCase[i] = c
  THEN LowerCase[CHOOSE i \in DOMAIN UpperCase : UpperCase[i] = c]
  ELSE c

\* str.lower()
lower(s) == [i \in DOMAIN s |-> LowerChar(s[i])]

\* str.endswith(suffix)
endswith(s, suffix) ==
  /\ Len(suffix) <= Len(s)
  /\ SubSeq(s, Len(s) - Len(suffix) + 1, Len(s)) = suffix

\* the extensions convert accepts
Extensions == {<<".", "p", "d", "f">>, <<".", "t", "x", "t">>}

\* the test without lower()
IsSupportedCaseSensitive(p) == \E ext \in Extensions : endswith(p, ext)

\* any(pdf.lower().endswith(ext) for ext in ['.pdf', '.txt'])
IsSupported(p) == \E ext \in Extensions : endswith(lower(p), ext)

\* the file names convert is called with
SourceNames ==
  { <<"B", ".", "P", "D", "F">>,
    <<"c", ".", "T", "x", "t">>,
    <<"r", ".", "d", "o", "c", "x">>,
    <<"p", "d", "f">>,
    <<"a", ".", "t", "x", "t", ".", "b">> }

(***************************************************************************)
(* Log records of the 'gtts.tts' logger.  A message is a sequence of       *)
(* tokens: a literal run of text, or a maximal run of digits with its      *)
(* value.                                                                  *)
(***************************************************************************)
Lit(s) == [k |-> s, n |-> 0]
Digits(n) == [k |-> "digits", n |-> n]

\* the messages the synthesis engine may log while saving
LogMessages ==
  { <<Lit("text_parts: "), Digits(n)>> : n \in 0..MaxTotal }
  \cup { <<Lit("part-"), Digits(0), Lit(" created")>>,
         <<Lit("text_parts: "), Lit("['Hello']")>>,
         <<Lit("part-"), Digits(0), Lit(" written to "), Lit("out.mp3")>> }

None == -1

\* re.search(r"text_parts: (\d+)", msg), then int(match.group(1)); None when
\* there is no match
SearchTextParts(msg) ==
  LET hits == {i \in 1..(Len(msg) - 1) :
                 msg[i] = Lit("text_parts: ") /\ msg[i + 1].k = "digits"}
  IN IF hits = {} THEN None
     ELSE msg[(CHOOSE i \in hits : \A j \in hits : i <= j) + 1].n

\* re.search(r"part-(\d+) created", msg) found a match
SearchPartCreated(msg) ==
  \E i \in 1..(Len(msg) - 2) :
     /\ msg[i] = Lit("part-")
     /\ msg[i + 1].k = "digits"
     /\ msg[i + 2] = Lit(" created")

(***************************************************************************)
(* SharedState and QueueHandler.emit                                       *)
(***************************************************************************)
\* SharedState.__init__
SharedState == [progress |-> 0, total_parts |-> 0, progress_percentage |-> Zero]

\* (progress / total_parts) * 100, for total_parts /= 0
ProgressPercentage(progress, total_parts) ==
  FloatMul(FloatDiv(progress, total_parts), 100)

\* ProgressPercentage, tabulated over the values the bounds allow
PercentageTable ==
  [j \in 1..MaxLog, t \in 1..MaxTotal |-> ProgressPercentage(j, t)]

\* emit with the division guarded: a zero total notifies 0 instead of raising
emitGuarded(s, msg) ==
  LET n == SearchTextParts(msg)
      s1 == IF n /= None THEN [s EXCEPT !.total_parts = n] ELSE s
  IN IF ~SearchPartCreated(msg)
     THEN [state |-> s1, notes |-> <<>>, handleError |-> FALSE]
     ELSE LET s2 == [s1 EXCEPT !.progress = @ + 1]
              pct == IF s2.total_parts = 0 THEN Zero
                     ELSE PercentageTable[s2.progress, s2.total_parts]
          IN [state |-> [s2 EXCEPT !.progress_percentage = pct],
              notes |-> <<pct>>,
              handleError |-> FALSE]

\* QueueHandler.emit on the handler's shared state s: the state it leaves,
\* the values it passes to update_pb.emit, and whether the body raised and
\* handleError was called.
emit(s, msg) ==
  LET n == SearchTextParts(msg)
      s1 == IF n /= None THEN [s EXCEPT !.total_parts = n] ELSE s
  IN IF ~SearchPartCreated(msg)
     THEN [state |-> s1, notes |-> <<>>, handleError |-> FALSE]
     ELSE LET s2 == [s1 EXCEPT !.progress = @ + 1]
          IN IF s2.total_parts = 0
             THEN \* ZeroDivisionError, after progress was incremented
                  [state |-> s2, notes |-> <<>>, handleError |-> TRUE]
             ELSE LET pct == PercentageTable[s2.progress, s2.total_parts]
                  IN [state |-> [s2 EXCEPT !.progress_percentage = pct],
                      notes |-> <<pct>>,
                      handleError |-> FALSE]

(***************************************************************************)
(* Converter.convert                                                       *)
(***************************************************************************)
VARIABLES
  pc,            \* where convert stands: "idle" when no call is running
  runs,          \* convert calls made so far
  outcome,       \* how the last convert call ended
  pdf,           \* convert's argument
  split,         \* settings.split_txt_checkbox.isChecked(), as read at line 94
  output_paths,  \* the chunk files tts_word_count returned
  count,         \* the loop counter of line 98
  text,          \* 0: the cleaned document; i: what was read from chunk file i
  output_file,   \* the path construct_filename returned
  fs,            \* chunk files now on disk
  tempdir,       \* whether the temp directory exists
  handlers,      \* shared states of the handlers of logging.getLogger('gtts.tts')
  trace,         \* the current call's signals and calls, in order
  lastSignal,    \* the signal emitted last, by convert or by a handler
  nlog,          \* records logged so far
  lastMsg,       \* the record a LogDebug step dispatched, <<>> after other steps
  notified,      \* update_pb emissions that record caused: <<[h, value], ...>>
  failed,        \* handlers whose emit called handleError on that record
  since          \* a total announced to the zeroed record of this run, and the
                 \* chunk-finished records counted after it

vars == <<pc, runs, outcome, pdf, split, output_paths, count, text, output_file,
          fs, tempdir, handlers, trace, lastSignal, nlog, lastMsg, notified,
          failed, since>>

runVars == <<pdf, split, output_paths, count, text, output_file>>

NoAnnouncement == [T |-> 0, j |-> 0]
NoSignal == [op |-> "none", arg |-> <<>>]

\* a signal emission or a call, as the trace records it
Ev(op, arg) == [op |-> op, arg |-> arg]

Signals == {"op_msgs", "view_pb", "update_pb", "revise_pb_label"}

\* the last signal of tr, or dflt when it holds none
RECURSIVE LastSignalOf(_, _)
LastSignalOf(tr, dflt) ==
  IF tr = <<>> THEN dflt
  ELSE IF tr[Len(tr)].op \in Signals THEN tr[Len(tr)]
  ELSE LastSignalOf(SubSeq(tr, 1, Len(tr) - 1), dflt)

\* str(e) of the exception a failing call raises
ExcText(call) == <<call, " failed">>

\* line 78
RejectMsg == <<"Cannot TTS. Filetype ", "is not TXT or PDF", ".">>
\* line 81
ConvertingMsg(p) == <<"Converting ">> \o p
\* line 120
ErrorMsg(p, e) == <<"Error converting ">> \o p \o <<": ">> \o e
\* line 101
ProgressLabel(c, n) == <<"TTS Progress (", ToString(c), "/", ToString(n), "):">>
\* line 107
ChunkCompleteMsg(c, n, out) ==
  <<"Conversion ", ToString(c), "/", ToString(n), " complete. Output: ">> \o out
\* line 118
CompleteMsg(out) == <<"Conversion complete. Output: ">> \o out

\* construct_filename(pdf, "tts_ps"): a path derived from the source name and
\* the tag
construct_filename(p, tag) == p \o <<"_", tag>>

\* a reset that leaves total_parts as it was
ResetProgressKeepsTotal(s) ==
  [s EXCEPT !.progress = 0, !.progress_percentage = Zero]

\* tts_word_count(text, temp_file, True) returning o chunk files: their paths,
\* in order; the i-th chunk file is named by i
tts_word_count(o) == [i \in 1..o |-> i]

\* lines 110-112: the progress reset
ResetProgress(s) ==
  [s EXCEPT !.progress = 0, !.total_parts = 0, !.progress_percentage = Zero]

\* the completion steps with the reset of the progress bar in both branches
SaveTraceAlwaysResets(tr, isSplit, c, n, out) ==
  tr \o <<Ev("save", out),
          Ev("op_msgs", IF isSplit THEN ChunkCompleteMsg(c, n, out)
                        ELSE CompleteMsg(out)),
          Ev("update_pb", Zero),
          Ev("reset", c)>>

\* lines 106-109 and 117-118: what follows a tts.save that returned, up to the
\* progress reset: the completion message and, with splitting, update_pb.emit(0)
SaveTrace(tr, isSplit, c, n, out) ==
  IF isSplit
  THEN tr \o <<Ev("save", out),
               Ev("op_msgs", ChunkCompleteMsg(c, n, out)),
               Ev("update_pb", Zero),
               Ev("reset", c)>>
  ELSE tr \o <<Ev("save", out), Ev("op_msgs", CompleteMsg(out))>>

\* line 122 left out
HideProgressMissing(tr) == tr

\* line 122, reached on every path out of the try statement
HideProgress(tr) == Append(tr, Ev("view_pb", FALSE))

\* an except clause that reports the error and raises it again
ExceptClauseReraises(tr, p, call) ==
  [trace |-> Append(Append(tr, Ev("raise", call)),
                    Ev("op_msgs", ErrorMsg(p, ExcText(call)))),
   caught |-> FALSE]

\* lines 119-121: the except clause, entered with the exception of `call`
ExceptClause(tr, p, call) ==
  [trace |-> Append(Append(tr, Ev("raise", call)),
                    Ev("op_msgs", ErrorMsg(p, ExcText(call)))),
   caught |-> TRUE]

\* what every step of convert does to the bookkeeping of the last log record
NoLog ==
  /\ lastMsg' = <<>>
  /\ notified' = <<>>
  /\ failed' = {}
  /\ UNCHANGED nlog

\* convert goes on to `next` with trace tr
Continue(tr, next) ==
  /\ trace' = tr
  /\ lastSignal' = LastSignalOf(tr, lastSignal)
  /\ pc' = next
  /\ UNCHANGED outcome

\* convert returns after line 122
Return(tr) ==
  /\ trace' = HideProgress(tr)
  /\ lastSignal' = LastSignalOf(HideProgress(tr), lastSignal)
  /\ pc' = "idle"
  /\ outcome' = "returned"

\* `call` raises inside the try statement, the trace being tr
Raise(tr, call) ==
  LET x == ExceptClause(tr, pdf, call)
  IN IF x.caught
     THEN Return(x.trace)
     ELSE /\ trace' = x.trace
          /\ lastSignal' = LastSignalOf(x.trace, lastSignal)
          /\ pc' = "idle"
          /\ outcome' = "raised"

Init ==
  /\ pc = "idle"
  /\ runs = 0
  /\ outcome = "none"
  /\ pdf = <<>>
  /\ split = FALSE
  /\ output_paths = <<>>
  /\ count = 0
  /\ text = 0
  /\ output_file = <<>>
  /\ fs = {}
  /\ tempdir = FALSE
  /\ handlers = <<>>
  /\ trace = <<>>
  /\ lastSignal = NoSignal
  /\ nlog = 0
  /\ lastMsg = <<>>
  /\ notified = <<>>
  /\ failed = {}
  /\ since = NoAnnouncement

\* lines 76-91: the call, the validation, the handler, the first signals
convert(p) ==
  /\ pc = "idle"
  /\ runs < MaxRuns
  /\ runs' = runs + 1
  /\ pdf' = p
  /\ split' = FALSE
  /\ output_paths' = <<>>
  /\ count' = 0
  /\ text' = 0
  /\ output_file' = <<>>
  /\ since' = NoAnnouncement
  /\ NoLog
  /\ UNCHANGED <<fs, tempdir>>
  /\ IF ~IsSupported(p)
     THEN /\ trace' = <<Ev("op_msgs", RejectMsg)>>
          /\ lastSignal' = Ev("op_msgs", RejectMsg)
          /\ pc' = "idle"
          /\ outcome' = "returned"
          /\ UNCHANGED handlers
     ELSE /\ handlers' = Append(handlers, SharedState)
          /\ trace' = <<Ev("op_msgs", ConvertingMsg(p)),
                        Ev("addHandler", Len(handlers) + 1),
                        Ev("revise_pb_label", <<"TTS Progress:">>),
                        Ev("view_pb", TRUE)>>
          /\ lastSignal' = Ev("view_pb", TRUE)
          /\ pc' = "extract"
          /\ outcome' = "running"

\* line 93: clean_text(pdf) returns or raises
clean_text ==
  /\ pc = "extract"
  /\ NoLog
  /\ UNCHANGED <<runs, runVars, fs, tempdir, handlers, since>>
  /\ \E ok \in BOOLEAN :
       IF ok THEN Continue(Append(trace, Ev("clean_text", pdf)), "decide")
       ELSE Raise(trace, "clean_text")

\* lines 94-98: the split decision; with splitting, get_temp_dir (which
\* creates the directory when it is absent) and tts_word_count, each returning
\* or raising.  o = -2: get_temp_dir raises; o = -1: tts_word_count raises;
\* o >= 0: tts_word_count writes and returns o chunk files.
split_decision ==
  /\ pc = "decide"
  /\ NoLog
  /\ UNCHANGED <<runs, pdf, count, text, output_file, handlers, since>>
  /\ \E checked \in BOOLEAN :
       /\ split' = checked
       /\ IF ~checked
          THEN /\ Continue(trace, "synth")
               /\ UNCHANGED <<output_paths, fs, tempdir>>
          ELSE \E o \in (-2)..MaxChunks :
                 IF o = -2
                 THEN /\ Raise(trace, "get_temp_dir")
                      /\ UNCHANGED <<output_paths, fs, tempdir>>
                 ELSE IF o = -1
                 THEN /\ Raise(Append(trace, Ev("get_temp_dir", tempdir)), "tts_word_count")
                      /\ tempdir' = TRUE
                      /\ UNCHANGED <<output_paths, fs>>
                 ELSE LET tr == Append(Append(trace, Ev("get_temp_dir", tempdir)),
                                       Ev("tts_word_count", o))
                      IN /\ tempdir' = TRUE
                         /\ output_paths' = tts_word_count(o)
                         /\ fs' = fs \cup {tts_word_count(o)[i] : i \in 1..o}
                         /\ IF o = 0 THEN Return(tr) ELSE Continue(tr, "read")

\* lines 99-103: the next chunk: count, the label, open and read
read_chunk ==
  /\ pc = "read"
  /\ NoLog
  /\ count' = count + 1
  /\ UNCHANGED <<runs, pdf, split, output_paths, output_file, fs, tempdir,
                 handlers, since>>
  /\ LET path == output_paths[count + 1]
         tr == Append(trace, Ev("revise_pb_label",
                                ProgressLabel(count + 1, Len(output_paths))))
     IN \E ok \in BOOLEAN :
          IF ok /\ path \in fs
          THEN /\ text' = path
               /\ Continue(Append(tr, Ev("read", path)), "synth")
          ELSE /\ UNCHANGED text
               /\ Raise(tr, "open")

\* lines 104-105 and 115-116: gTTS(text, ...) and construct_filename
synthesize ==
  /\ pc = "synth"
  /\ NoLog
  /\ UNCHANGED <<runs, pdf, split, output_paths, count, text, fs, tempdir,
                 handlers, since>>
  /\ \E ok \in BOOLEAN :
       IF ok
       THEN /\ output_file' = construct_filename(pdf, "tts_ps")
            /\ Continue(Append(Append(trace, Ev("gTTS", text)),
                               Ev("construct_filename", pdf)), "save")
       ELSE /\ UNCHANGED output_file
            /\ Raise(trace, "gTTS")

\* Logger.callHandlers: every handler of the logger, in the order they were
\* added, handles the record
RECURSIVE Dispatch(_, _, _)
Dispatch(hs, msg, h) ==
  IF h > Len(hs) THEN [handlers |-> <<>>, notified |-> <<>>, failed |-> {}]
  ELSE LET r == emit(hs[h], msg)
           rest == Dispatch(hs, msg, h + 1)
       IN [handlers |-> <<r.state>> \o rest.handlers,
           notified |-> [i \in DOMAIN r.notes |-> [h |-> h, value |-> r.notes[i]]]
                        \o rest.notified,
           failed |-> (IF r.handleError THEN {h} ELSE {}) \cup rest.failed]

\* the bookkeeping of `since` for a record the current run's handler handles
Announce(s, cur, msg) ==
  LET n == SearchTextParts(msg)
  IN IF n /= None
     THEN IF n > 0 /\ ~SearchPartCreated(msg) /\ cur = SharedState
          THEN [T |-> n, j |-> 0]
          ELSE NoAnnouncement
     ELSE IF SearchPartCreated(msg) /\ s.T > 0
          THEN [s EXCEPT !.j = @ + 1]
          ELSE s

\* the synthesis engine logs a record on 'gtts.tts' while tts.save runs
LogDebug(msg) ==
  /\ pc = "save"
  /\ nlog < MaxLog
  /\ nlog' = nlog + 1
  /\ LET d == Dispatch(handlers, msg, 1)
     IN /\ handlers' = d.handlers
        /\ notified' = d.notified
        /\ failed' = d.failed
        /\ lastSignal' = IF d.notified = <<>> THEN lastSignal
                         ELSE Ev("update_pb", d.notified[Len(d.notified)].value)
  /\ lastMsg' = msg
  /\ since' = Announce(since, handlers[Len(handlers)], msg)
  /\ UNCHANGED <<pc, runs, outcome, runVars, fs, tempdir, trace>>

\* lines 106-113 and 117-118: tts.save returns or raises; with splitting the
\* completion message, the progress reset and os.remove, which returns or
\* raises, and the loop's next turn or its end
save ==
  /\ pc = "save"
  /\ NoLog
  /\ UNCHANGED <<runs, runVars, tempdir>>
  /\ since' = NoAnnouncement
  /\ \E saved \in BOOLEAN :
       IF ~saved
       THEN /\ Raise(trace, "save")
            /\ UNCHANGED <<fs, handlers>>
       ELSE IF ~split
       THEN /\ Return(SaveTrace(trace, FALSE, count, Len(output_paths), output_file))
            /\ UNCHANGED <<fs, handlers>>
       ELSE LET path == output_paths[count]
                tr == SaveTrace(trace, TRUE, count, Len(output_paths), output_file)
            IN /\ handlers' = [handlers EXCEPT
                                 ![Len(handlers)] = ResetProgress(@)]
               /\ \E removed \in BOOLEAN :
                    IF ~removed
                    THEN /\ Raise(tr, "remove")
                         /\ UNCHANGED fs
                    ELSE /\ fs' = fs \ {path}
                         /\ IF count < Len(output_paths)
                            THEN Continue(Append(tr, Ev("remove", path)), "read")
                            ELSE Return(Append(tr, Ev("remove", path)))

Next ==
  \/ \E p \in SourceNames : convert(p)
  \/ clean_text
  \/ split_decision
  \/ read_chunk
  \/ synthesize
  \/ \E msg \in LogMessages : LogDebug(msg)
  \/ save

Spec == Init /\ [][Next]_vars

(***************************************************************************)
(* Properties                                                              *)
(***************************************************************************)
\* sub in s, for strings
Contains(s, sub) ==
  \E i \in 0..(Len(s) - Len(sub)) : SubSeq(s, i + 1, i + Len(sub)) = sub

Positions(tr, op) == {i \in DOMAIN tr : tr[i].op = op}

Count(tr, op) == Cardinality(Positions(tr, op))

\* the position of the k-th `op` of tr, 0 when there are fewer
Nth(tr, op, k) ==
  LET P == Positions(tr, op)
  IN IF Cardinality(P) < k THEN 0
     ELSE CHOOSE i \in P : Cardinality({j \in P : j <= i}) = k

\* the handler the current convert call added
Current == Len(handlers)

\* a convert call has returned and none is running
Ended == pc = "idle" /\ runs > 0

NoRaise == Positions(trace, "raise") = {}

IsErrorMsg(e) == e.op = "op_msgs" /\ e.arg[1] = "Error converting "

\* c and d are the same letter, whatever their case
SameLetter(c, d) ==
  \/ c = d
  \/ \E i \in DOMAIN UpperCase : {c, d} = {UpperCase[i], LowerCase[i]}

\* name ends in ext, compared case-insensitively
EndsInIgnoringCase(name, ext) ==
  /\ Len(name) >= Len(ext)
  /\ \A i \in 1..Len(ext) : SameLetter(name[Len(name) - Len(ext) + i], ext[i])

NameAccepted(name) ==
  \/ EndsInIgnoringCase(name, <<".", "p", "d", "f">>)
  \/ EndsInIgnoringCase(name, <<".", "t", "x", "t">>)

\* chunk k of the run has been worked off: the next chunk has been read, or
\* the run has ended after it
ChunkOver(k) == Nth(trace, "read", k + 1) > 0 \/ (Ended /\ k <= count)

\* C1: in a run with splitting where the chunker returned N files and nothing
\* failed there are N synthesis invocations, the k-th on the text read from
\* the k-th chunk file; chunk k is read, synthesized and saved before chunk
\* k+1 is read; after the save of chunk k and before chunk k+1 is read,
\* update_pb(0) is emitted and the run's progress record is all zero; chunk
\* file k is removed after it was read and before chunk k+1 is read.
C1_ChunksInOrder ==
  (split /\ NoRaise) =>
    /\ Count(trace, "gTTS") <= Len(output_paths)
    /\ Ended => Count(trace, "gTTS") = Len(output_paths)
    /\ \A k \in 1..Len(output_paths) :
         ChunkOver(k) =>
           LET r == Nth(trace, "read", k)
               g == Nth(trace, "gTTS", k)
               v == Nth(trace, "save", k)
               u == Nth(trace, "update_pb", k)
               z == Nth(trace, "reset", k)
               d == Nth(trace, "remove", k)
               next == Nth(trace, "read", k + 1)
           IN /\ 0 < r /\ r < g /\ g < v /\ v < u /\ v < z /\ r < d
              /\ trace[r].arg = output_paths[k]
              /\ trace[g].arg = output_paths[k]
              /\ trace[u].arg = Zero
              /\ trace[d].arg = output_paths[k]
              /\ next > 0 => (u < next /\ z < next /\ d < next)
    /\ (pc = "read" \/ Ended) =>
         /\ handlers[Current] = SharedState
         /\ \A k \in 1..count : output_paths[k] \notin fs

\* C1's case: a run with splitting has worked off two chunks and ended, two
\* records having been logged
C1_Witness ==
  /\ Ended /\ split /\ NoRaise
  /\ Len(output_paths) = 2
  /\ Count(trace, "remove") = 2
  /\ nlog >= 2

\* C2: a source name that does not end, case-insensitively, in .pdf or .txt
\* gets the "is not TXT or PDF" message and nothing else: no extraction, no
\* chunking, no synthesis, no file, no handler; a name that does end so is
\* not rejected.
C2_Validation ==
  runs > 0 =>
    IF NameAccepted(pdf)
    THEN /\ Len(trace) >= 4
         /\ trace[1] = Ev("op_msgs", ConvertingMsg(pdf))
         /\ Count(trace, "addHandler") = 1
         /\ \A i \in Positions(trace, "op_msgs") : trace[i].arg /= RejectMsg
    ELSE /\ Len(trace) = 1
         /\ trace[1].op = "op_msgs"
         /\ Contains(trace[1].arg, <<"is not TXT or PDF">>)
         /\ Ended
         /\ outcome = "returned"
         /\ Len(handlers) < runs

\* C2's case: a name with a wrong extension was rejected after a run that was
\* not
C2_Witness ==
  /\ runs = 2
  /\ ~NameAccepted(pdf)
  /\ Len(handlers) = 1
  /\ trace = <<Ev("op_msgs", RejectMsg)>>

C4_HiddenAtEnd ==
  Ended =>
    IF NameAccepted(pdf)
    THEN /\ lastSignal = Ev("view_pb", FALSE)
         /\ trace[Len(trace)].op = "view_pb"
         /\ trace[Len(trace)].arg = FALSE
         /\ \A i \in Positions(trace, "view_pb") :
              trace[i].arg => \E j \in Positions(trace, "view_pb") :
                                 j > i /\ ~trace[j].arg
    ELSE Positions(trace, "view_pb") = {}

\* C4's case: a run that showed the progress bar failed while saving, after
\* a handler had notified
C4_Witness ==
  /\ Ended /\ ~NoRaise
  /\ NameAccepted(pdf)
  /\ nlog > 0
  /\ trace[Nth(trace, "raise", 1)].arg = "save"

\* C4 as stated: every run, a rejected one too, ends with view_pb(False) as
\* its last event.
C4_Original ==
  Ended => (lastSignal.op = "view_pb" /\ lastSignal.arg = FALSE)

\* the notifications the last record caused in the current run's handler
CurrentNotes ==
  SelectSeq(notified, LAMBDA x : x.h = Current)

\* C5: from a zeroed record, after a record announcing T > 0, the j-th
\* chunk-finished record causes exactly one notification, of 100 * j / T.
C5_PercentageOfJthChunk ==
  (lastMsg /= <<>> /\ SearchPartCreated(lastMsg) /\ since.T > 0 /\ since.j >= 1) =>
    /\ Len(CurrentNotes) = 1
    /\ CurrentNotes[1].value = FloatDiv(100 * since.j, since.T)

\* C6: a run without splitting in which nothing failed makes one synthesis
\* invocation, derives and writes one output path, never calls the chunker,
\* creates no chunk file and no temp directory, and resets no progress.
C6_SingleSynthesis ==
  (Ended /\ NameAccepted(pdf) /\ ~split /\ NoRaise) =>
    /\ Count(trace, "gTTS") = 1
    /\ Count(trace, "construct_filename") = 1
    /\ Count(trace, "save") = 1
    /\ trace[Nth(trace, "save", 1)].arg = construct_filename(pdf, "tts_ps")
    /\ Count(trace, "tts_word_count") = 0
    /\ Count(trace, "get_temp_dir") = 0
    /\ Count(trace, "read") = 0
    /\ Count(trace, "remove") = 0
    /\ Count(trace, "reset") = 0
    /\ Count(trace, "update_pb") = 0
    /\ runs = 1 => (fs = {} /\ ~tempdir)

\* C6's case: a run without splitting succeeded
C6_Witness ==
  /\ Ended /\ NameAccepted(pdf) /\ ~split /\ NoRaise
  /\ Count(trace, "save") = 1

\* C7: a record logged during run k notifies through run k's handler alone:
\* the handlers of earlier runs emit nothing.
C7_OnlyCurrentRunNotified ==
  \A i \in DOMAIN notified : notified[i].h = Current

\* 100 * completed / total, allowing the last place of the float to be
\* rounded either way
IsPercentage(x, completed, total) ==
  \/ x = FloatDiv(100 * completed, total)
  \/ x = FloatMul(FloatDiv(completed, total), 100)

\* C8: in every state of the running call's progress record, percentage is
\* 100 * completedChunks / totalChunks when totalChunks > 0, and 0 when
\* totalChunks = 0.
C8_PercentageInvariant ==
  (pc /= "idle") =>
    LET st == handlers[Current]
    IN IF st.total_parts > 0
       THEN IsPercentage(st.progress_percentage, st.progress, st.total_parts)
       ELSE st.progress_percentage = Zero

\* C9: when a run with splitting ends, by working off every chunk or by
\* failing while reading or synthesizing one, none of its chunk files is
\* left on disk.
C9_NoChunkFileLeft ==
  (Ended /\ split
     /\ (NoRaise \/ trace[Nth(trace, "raise", 1)].arg \in {"open", "gTTS", "save"})) =>
    \A k \in 1..Len(output_paths) : output_paths[k] \notin fs

\* C10: a chunk-finished record that meets totalChunks = 0 makes the handler
\* call handleError and notify nothing; the run goes on saving with the
\* handler attached, and has emitted no error message.
C10_ObserverFailureNotFatal ==
  (lastMsg /= <<>> /\ SearchPartCreated(lastMsg)
     /\ handlers[Current].total_parts = 0) =>
    /\ Current \in failed
    /\ CurrentNotes = <<>>
    /\ pc = "save"
    /\ outcome = "running"
    /\ NoRaise
    /\ \A i \in DOMAIN trace : ~IsErrorMsg(trace[i])

\* C10's case: the handler failed on a record and had handled one before
C10_Witness ==
  /\ Current \in failed
  /\ nlog >= 2
  /\ handlers[Current].progress >= 2

====
